---- MODULE Spec2Model ----
(***************************************************************************)
(* Password-reset OTP flow (component OTPVerification) and the             *)
(* change-password flow of the Settings component.                         *)
(*                                                                         *)
(* Each React state cell (useState) is a variable.  A handler runs         *)
(* synchronously up to its first await, so a submit event and the issue of *)
(* its external call are one step; the continuation after the await (try   *)
(* body or catch, then finally) is a second step, taken when the external  *)
(* service answers.  React flushes state updates of a discrete event       *)
(* before the next event is dispatched, so every event sees the state the  *)
(* previous step left.                                                     *)
(***************************************************************************)
EXTENDS Integers, Sequences, FiniteSets, TLC

VARIABLES
    \* ---- the page the router shows: the two components are never on screen
    \* together
    route,
    \* ---- OTPVerification: component state (useState cells) and props
    otp, newPassword, confirmPassword, error, message, isSubmitting,
    verificationToken, resetToken,
    \* ---- OTPVerification: lifecycle and environment
    mounted,        \* is an instance of the component on screen
    inst,           \* number of the instance mounted last
    inflight,       \* verifyOTP / resetPassword calls awaiting their answer
    timers,         \* pending setTimeout(onBack, 3000) of instance inst
    staleTimers,    \* pending timers of the instances before it
    \* ---- OTPVerification: history of instance inst
    verifiedArg,    \* resetToken argument of its verifyOTP call that succeeded
    verifyReturned, \* token the service returned for that call
    resetOk,        \* its resetPassword calls that succeeded
    timerOnBack,    \* onBack invocations made by its timers
    clickOnBack,    \* onBack invocations made by its Back button
    \* ---- Settings: password state
    passwordData, passwordError, passwordSuccess, isUpdatingPassword,
    pwInflight      \* changePassword calls awaiting their answer

otpVars == <<otp, newPassword, confirmPassword, error, message, isSubmitting,
             verificationToken, resetToken, mounted, inst, inflight, timers,
             staleTimers, verifiedArg, verifyReturned, resetOk, timerOnBack, clickOnBack>>
pwVars == <<passwordData, passwordError, passwordSuccess, isUpdatingPassword,
            pwInflight>>
vars == <<route, otpVars, pwVars>>

(***************************************************************************)
(* Bounds of the model.                                                    *)
(***************************************************************************)
\* instances of OTPVerification mounted one after the other
MaxInst == 2
\* resetPassword calls one instance issues that can still start a timer
MaxResets == 2

Instances == 1..MaxInst

(***************************************************************************)
(* The application: the router shows the password-reset screen or the      *)
(* settings screen.                                                        *)
(***************************************************************************)
Routes == {"reset", "settings"}
OnResetPage == route = "reset"
OnSettingsPage == route = "settings"

(***************************************************************************)
(* Values.                                                                 *)
(***************************************************************************)
\* JavaScript null (useState(null)) and an absent optional value
null == "<null>"
undefined == "<undefined>"

\* the resetToken prop: the caller passes the token of the reset attempt it
\* started, a new one for each attempt
IssuedToken(i) == CASE i = 1 -> "rt1" [] i = 2 -> "rt2" [] i = 3 -> "rt3"
                    [] OTHER -> "rt4"
\* what the service may hand back as the verification response to call c:
\* the token it was given, or one it issues
ServiceTokens(c) == {c.a, "vt1"}
OtpInputs == {"", "123456"}
ResetPasswordInputs == {"", "pwA", "pwB"}
\* err.response?.data?.message of a rejected call
ServerMessages == {undefined, "", "service says no"}

\* JavaScript truthiness of a string-or-null value
Truthy(v) == v \notin {null, undefined, ""}
\* a || b
OrElse(a, b) == IF Truthy(a) THEN a ELSE b

(***************************************************************************)
(* OTPVerification: state after mounting (useState initial values).        *)
(***************************************************************************)
InitialVerificationToken_Preset == "rt1"

InitialVerificationToken == null

FreshOtpState ==
    /\ otp' = ""
    /\ newPassword' = ""
    /\ confirmPassword' = ""
    /\ error' = null
    /\ message' = null
    /\ isSubmitting' = FALSE
    /\ verificationToken' = InitialVerificationToken

\* which of the two forms the component renders
OtpFormShown == ~Truthy(verificationToken)
ResetFormShown == ~OtpFormShown

SubmitDisabled_Never == FALSE

\* <Button type="submit" disabled={isSubmitting}>: a disabled default button
\* blocks both the click and the implicit (Enter key) submission of its form
SubmitDisabled == isSubmitting

\* the states of the controller the specification names
AwaitingOTP == mounted /\ OtpFormShown
AwaitingNewPassword == mounted /\ ResetFormShown
\* the component has no state cell for Done: it is the success message shown
Done == mounted /\ message # null

\* the calls awaiting their answer are kept in the order they were issued
Issue(calls, c) == Append(calls, c)
Answered(calls, k) == [j \in 1..(Len(calls) - 1) |->
                          IF j < k THEN calls[j] ELSE calls[j + 1]]

CallsOf(i) == {k \in DOMAIN inflight : inflight[k].inst = i}
ResetCallsOf(i) == {k \in DOMAIN inflight :
                       inflight[k].inst = i /\ inflight[k].op = "resetPassword"}

(***************************************************************************)
(* OTPVerification: the caller's onBack.  Its body is not part of the      *)
(* component; by the specification it returns to the prior screen, which   *)
(* takes the component off the screen and discards its state.              *)
(***************************************************************************)
ParentOnBack ==
    /\ mounted' = FALSE
    /\ FreshOtpState
    /\ verifiedArg' = null
    /\ verifyReturned' = null
    /\ UNCHANGED <<resetToken, inst>>

\* the caller shows the component again, for a reset attempt it started
Mount ==
    /\ ~mounted
    /\ inst < MaxInst
    /\ inst' = inst + 1
    /\ mounted' = TRUE
    /\ resetToken' = IssuedToken(inst + 1)
    /\ FreshOtpState
    /\ verifiedArg' = null
    /\ verifyReturned' = null
    /\ timers' = 0
    /\ staleTimers' = staleTimers + timers
    /\ resetOk' = 0
    /\ timerOnBack' = 0
    /\ clickOnBack' = 0
    /\ UNCHANGED inflight
    /\ OnResetPage /\ UNCHANGED <<route, pwVars>>

(***************************************************************************)
(* OTPVerification: input fields.                                          *)
(***************************************************************************)
SetOtp ==
    /\ mounted /\ OtpFormShown
    /\ \E v \in OtpInputs : otp' = v
    /\ UNCHANGED <<newPassword, confirmPassword, error, message, isSubmitting,
                   verificationToken, resetToken, mounted, inst, inflight,
                   timers, staleTimers, verifiedArg, verifyReturned, resetOk, timerOnBack,
                   clickOnBack>>
    /\ OnResetPage /\ UNCHANGED <<route, pwVars>>

SetNewPassword ==
    /\ mounted /\ ResetFormShown
    /\ \E v \in ResetPasswordInputs : newPassword' = v
    /\ UNCHANGED <<otp, confirmPassword, error, message, isSubmitting,
                   verificationToken, resetToken, mounted, inst, inflight,
                   timers, staleTimers, verifiedArg, verifyReturned, resetOk, timerOnBack,
                   clickOnBack>>
    /\ OnResetPage /\ UNCHANGED <<route, pwVars>>

SetConfirmPassword ==
    /\ mounted /\ ResetFormShown
    /\ \E v \in ResetPasswordInputs : confirmPassword' = v
    /\ UNCHANGED <<otp, newPassword, error, message, isSubmitting,
                   verificationToken, resetToken, mounted, inst, inflight,
                   timers, staleTimers, verifiedArg, verifyReturned, resetOk, timerOnBack,
                   clickOnBack>>
    /\ OnResetPage /\ UNCHANGED <<route, pwVars>>

(***************************************************************************)
(* OTPVerification: handleVerifyOTP.                                       *)
(***************************************************************************)
\* the submit event of the OTP form reaches the handler
CanSubmitOtp ==
    /\ mounted /\ OtpFormShown
    /\ ~SubmitDisabled
    /\ otp # ""                      \* <Input required>

\* up to the await: setIsSubmitting(true); verifyOTP(resetToken, otp)
HandleVerifyOTP ==
    /\ CanSubmitOtp
    /\ isSubmitting' = TRUE
    /\ inflight' = Issue(inflight,
           [op |-> "verifyOTP", inst |-> inst, a |-> resetToken, b |-> otp])
    /\ UNCHANGED <<otp, newPassword, confirmPassword, error, message,
                   verificationToken, resetToken, mounted, inst, timers, staleTimers,
                   verifiedArg, verifyReturned, resetOk, timerOnBack,
                   clickOnBack>>
    /\ OnResetPage /\ UNCHANGED <<route, pwVars>>

StoredToken_Otp(c, returned) == c.b

\* the token the continuation stores: the resetToken of the handler's closure
StoredToken(c, returned) == c.a

VerifyOTPFailureText_NoFallback(msg) == msg

VerifyOTPFailureText(msg) == OrElse(msg, "OTP verification failed")

\* the state updates of an instance that left the screen are dropped
Live(c) == mounted /\ c.inst = inst

\* the call resolves: try body, then finally
VerifyOTPResolves ==
    \E k \in DOMAIN inflight : \E returned \in ServiceTokens(inflight[k]) :
      LET c == inflight[k] IN
        /\ c.op = "verifyOTP"
        /\ inflight' = Answered(inflight, k)
        /\ IF Live(c)
           THEN /\ verificationToken' = StoredToken(c, returned)
                /\ error' = null
                /\ isSubmitting' = FALSE
                /\ verifiedArg' = c.a
                /\ verifyReturned' = returned
           ELSE UNCHANGED <<verificationToken, error, isSubmitting,
                            verifiedArg, verifyReturned>>
        /\ UNCHANGED <<otp, newPassword, confirmPassword, message, resetToken,
                       mounted, inst, timers, staleTimers, resetOk, timerOnBack,
                       clickOnBack>>
        /\ OnResetPage /\ UNCHANGED <<route, pwVars>>

\* the call rejects: catch, then finally
VerifyOTPRejectsWith(k, msg) ==
      LET c == inflight[k] IN
        /\ c.op = "verifyOTP"
        /\ inflight' = Answered(inflight, k)
        /\ IF Live(c)
           THEN /\ error' = VerifyOTPFailureText(msg)
                /\ isSubmitting' = FALSE
           ELSE UNCHANGED <<error, isSubmitting>>
        /\ UNCHANGED <<otp, newPassword, confirmPassword, message,
                       verificationToken, resetToken, mounted, inst, timers, staleTimers,
                       verifiedArg, verifyReturned, resetOk, timerOnBack,
                       clickOnBack>>
        /\ OnResetPage /\ UNCHANGED <<route, pwVars>>

VerifyOTPRejects ==
    \E k \in DOMAIN inflight, msg \in ServerMessages :
        VerifyOTPRejectsWith(k, msg)

(***************************************************************************)
(* OTPVerification: handlePasswordReset.                                   *)
(***************************************************************************)
CanSubmitReset ==
    /\ mounted /\ ResetFormShown
    /\ ~SubmitDisabled
    /\ newPassword # "" /\ confirmPassword # ""     \* <Input required>

\* the model follows an instance up to MaxResets calls that may start a timer
ResetCallsLeft == resetOk + Cardinality(ResetCallsOf(inst)) < MaxResets

PasswordsDiffer_Unchecked(np, cp) == FALSE

PasswordsDiffer(np, cp) == np # cp

TimersAfterSuccess_NoneStarted(t) == t

\* setTimeout(onBack, 3000) in the success path
TimersAfterSuccess(t) == t + 1

ResetMismatchText == "Passwords do not match"
ResetSuccessText ==
    "Password reset successfully! You can now login with your new password."
ResetFailureText(msg) == OrElse(msg, "Password reset failed")

HandlePasswordReset ==
    /\ CanSubmitReset
    /\ IF PasswordsDiffer(newPassword, confirmPassword)
       THEN /\ error' = ResetMismatchText
            /\ UNCHANGED <<isSubmitting, inflight>>
       ELSE /\ ResetCallsLeft
            /\ isSubmitting' = TRUE
            /\ inflight' = Issue(inflight,
                   [op |-> "resetPassword", inst |-> inst,
                     a |-> verificationToken, b |-> newPassword])
            /\ UNCHANGED error
    /\ UNCHANGED <<otp, newPassword, confirmPassword, message,
                   verificationToken, resetToken, mounted, inst, timers, staleTimers,
                   verifiedArg, verifyReturned, resetOk, timerOnBack,
                   clickOnBack>>
    /\ OnResetPage /\ UNCHANGED <<route, pwVars>>

\* the call resolves: setMessage, setTimeout(onBack, 3000), finally
ResetPasswordResolves ==
    \E k \in DOMAIN inflight :
      LET c == inflight[k] IN
        /\ c.op = "resetPassword"
        /\ inflight' = Answered(inflight, k)
        /\ IF c.inst = inst
           THEN /\ timers' = TimersAfterSuccess(timers)
                /\ resetOk' = resetOk + 1
                /\ UNCHANGED staleTimers
           ELSE /\ staleTimers' = TimersAfterSuccess(staleTimers)
                /\ UNCHANGED <<timers, resetOk>>
        /\ IF Live(c)
           THEN /\ message' = ResetSuccessText
                /\ isSubmitting' = FALSE
           ELSE UNCHANGED <<message, isSubmitting>>
        /\ UNCHANGED <<otp, newPassword, confirmPassword, error,
                       verificationToken, resetToken, mounted, inst,
                       verifiedArg, verifyReturned, timerOnBack, clickOnBack>>
        /\ OnResetPage /\ UNCHANGED <<route, pwVars>>

ResetPasswordRejectsWith(k, msg) ==
      LET c == inflight[k] IN
        /\ c.op = "resetPassword"
        /\ inflight' = Answered(inflight, k)
        /\ IF Live(c)
           THEN /\ error' = ResetFailureText(msg)
                /\ isSubmitting' = FALSE
           ELSE UNCHANGED <<error, isSubmitting>>
        /\ UNCHANGED <<otp, newPassword, confirmPassword, message,
                       verificationToken, resetToken, mounted, inst, timers, staleTimers,
                       verifiedArg, verifyReturned, resetOk, timerOnBack,
                       clickOnBack>>
        /\ OnResetPage /\ UNCHANGED <<route, pwVars>>

ResetPasswordRejects ==
    \E k \in DOMAIN inflight, msg \in ServerMessages :
        ResetPasswordRejectsWith(k, msg)

(***************************************************************************)
(* OTPVerification: the two ways onBack is invoked.                        *)
(***************************************************************************)
\* <BackButton onClick={onBack}>
BackClick ==
    /\ mounted
    /\ clickOnBack' = clickOnBack + 1
    /\ ParentOnBack
    /\ UNCHANGED <<inflight, timers, staleTimers, resetOk, timerOnBack>>
    /\ OnResetPage /\ UNCHANGED <<route, pwVars>>

\* a timer started by setTimeout(onBack, 3000) expires; nothing cancels it
TimerFires ==
    /\ timers > 0
    /\ timers' = timers - 1
    /\ timerOnBack' = timerOnBack + 1
    /\ ParentOnBack
    /\ UNCHANGED <<inflight, staleTimers, resetOk, clickOnBack>>
    /\ OnResetPage /\ UNCHANGED <<route, pwVars>>

\* the same for a timer of an earlier instance
StaleTimerFires ==
    /\ staleTimers > 0
    /\ staleTimers' = staleTimers - 1
    /\ ParentOnBack
    /\ UNCHANGED <<inflight, timers, resetOk, timerOnBack, clickOnBack>>
    /\ OnResetPage /\ UNCHANGED <<route, pwVars>>

(***************************************************************************)
(* Settings: passwords are sequences of characters, so that the rules of   *)
(* the password policy are computed on them.                               *)
(***************************************************************************)
LowerChars == {"a", "b", "c", "d", "e", "f", "g", "h", "i", "j", "k", "l", "m",
               "n", "o", "p", "q", "r", "s", "t", "u", "v", "w", "x", "y", "z"}
UpperChars == {"A", "B", "C", "D", "E", "F", "G", "H", "I", "J", "K", "L", "M",
               "N", "O", "P", "Q", "R", "S", "T", "U", "V", "W", "X", "Y", "Z"}
DigitChars == {"0", "1", "2", "3", "4", "5", "6", "7", "8", "9"}
SpecialChars == {"!", "@", "#", "$", "%", "^", "&", "*", "(", ")", "_", "+",
                 "-", "=", "[", "]", "{", "}", ";", "'", ":", "\"", "\\", "|",
                 ",", ".", "<", ">", "/", "?"}

\* regex.test(p) for a character class
HasCharIn(p, class) == \E i \in 1..Len(p) : p[i] \in class

\* the five indicators of the live checklist
MinPasswordLength == 8
RequirementLength(p) == Len(p) >= MinPasswordLength
RequirementLower(p) == HasCharIn(p, LowerChars)
RequirementUpper(p) == HasCharIn(p, UpperChars)
RequirementDigit(p) == HasCharIn(p, DigitChars)
RequirementSpecial(p) == HasCharIn(p, SpecialChars)

\* validatePassword of utils/validators: the policy of the specification,
\* reporting the first rule that fails
validatePassword(p) ==
    IF ~(Len(p) >= 8)
    THEN [isValid |-> FALSE, message |-> "policy: length"]
    ELSE IF ~HasCharIn(p, LowerChars)
    THEN [isValid |-> FALSE, message |-> "policy: lowercase"]
    ELSE IF ~HasCharIn(p, UpperChars)
    THEN [isValid |-> FALSE, message |-> "policy: uppercase"]
    ELSE IF ~HasCharIn(p, DigitChars)
    THEN [isValid |-> FALSE, message |-> "policy: digit"]
    ELSE IF ~HasCharIn(p, SpecialChars)
    THEN [isValid |-> FALSE, message |-> "policy: special"]
    ELSE [isValid |-> TRUE, message |-> ""]

PolicyMessages == {"policy: length", "policy: lowercase", "policy: uppercase",
                   "policy: digit", "policy: special"}

\* what the user may type into a password field of Settings
PwValidA == <<"A", "b", "c", "d", "e", "f", "1", "!">>
PwValidB == <<"l", "o", "n", "g", "e", "n", "o", "u", "g", "h", "1", "A", "!">>
PwAllLower == <<"a", "b", "c", "d", "e", "f", "g", "h">>
PwNoSpecial == <<"N", "o", "S", "p", "e", "c", "i", "a", "l", "1", "A">>
PwShort == <<"A", "b", "1", "!">>
PwNoLower == <<"N", "O", "L", "O", "W", "E", "R", "1", "!">>
PwNoUpper == <<"a", "l", "l", "l", "o", "w", "e", "r", "c", "a", "s", "e", "1", "!">>
PwNoDigit == <<"N", "o", "N", "u", "m", "b", "e", "r", "!">>
PwInputs == {<<>>, PwValidA, PwValidB, PwAllLower, PwNoSpecial, PwShort,
             PwNoLower, PwNoUpper, PwNoDigit}
PwFields == {"currentPassword", "newPassword", "confirmPassword"}

\* a rejected changePassword: error.response?.data?.message and error.message
ChangeErrors == [response : ServerMessages, message : {undefined, "Network Error"}]

EmptyPasswordData ==
    [currentPassword |-> <<>>, newPassword |-> <<>>, confirmPassword |-> <<>>]

(***************************************************************************)
(* Settings: handlePasswordChange.                                         *)
(***************************************************************************)
handlePasswordChange ==
    \E name \in PwFields, value \in PwInputs :
        /\ passwordData' = [passwordData EXCEPT ![name] = value]
        /\ passwordError' = IF passwordError # "" THEN "" ELSE passwordError
        /\ passwordSuccess' = IF passwordSuccess # "" THEN "" ELSE passwordSuccess
        /\ UNCHANGED <<isUpdatingPassword, pwInflight>>
        /\ OnSettingsPage /\ UNCHANGED <<route, otpVars>>

(***************************************************************************)
(* Settings: handlePasswordUpdate.                                         *)
(***************************************************************************)
\* <SaveButton type="submit" disabled={isUpdatingPassword}>
UpdateDisabled == isUpdatingPassword

\* the submit event of the password form reaches the handler: the button is
\* enabled and the browser's validation of required / minLength passes
CanSubmitUpdate ==
    /\ ~UpdateDisabled
    /\ passwordData.currentPassword # <<>>
    /\ passwordData.newPassword # <<>>
    /\ Len(passwordData.newPassword) >= 8
    /\ passwordData.confirmPassword # <<>>

CurrentRequiredText == "Current password is required"
UpdateMismatchText == "New passwords do not match"
NoOpChangeText == "New password must be different from current password"
UpdateSuccessText == "Password updated successfully!"

LocalValidationError_NoOpUnchecked(d) ==
    IF d.currentPassword = <<>> THEN "Current password is required"
    ELSE IF ~validatePassword(d.newPassword).isValid
    THEN validatePassword(d.newPassword).message
    ELSE IF d.newPassword # d.confirmPassword THEN "New passwords do not match"
    ELSE ""

LocalValidationError_MismatchUnchecked(d) ==
    IF d.currentPassword = <<>> THEN "Current password is required"
    ELSE IF ~validatePassword(d.newPassword).isValid
    THEN validatePassword(d.newPassword).message
    ELSE IF d.currentPassword = d.newPassword
    THEN "New password must be different from current password"
    ELSE ""

LocalValidationError_PolicyUnchecked(d) ==
    IF d.currentPassword = <<>> THEN "Current password is required"
    ELSE IF d.newPassword # d.confirmPassword THEN "New passwords do not match"
    ELSE IF d.currentPassword = d.newPassword
    THEN "New password must be different from current password"
    ELSE ""

\* the local checks, in the handler's order: the text of the first that fails,
\* or "" when all pass
LocalValidationError(d) ==
    IF d.currentPassword = <<>> THEN CurrentRequiredText
    ELSE IF ~validatePassword(d.newPassword).isValid
    THEN validatePassword(d.newPassword).message
    ELSE IF d.newPassword # d.confirmPassword THEN UpdateMismatchText
    ELSE IF d.currentPassword = d.newPassword THEN NoOpChangeText
    ELSE ""

handlePasswordUpdate ==
    /\ CanSubmitUpdate
    /\ IF LocalValidationError(passwordData) # ""
       THEN /\ passwordError' = LocalValidationError(passwordData)
            /\ UNCHANGED <<isUpdatingPassword, pwInflight>>
       ELSE /\ isUpdatingPassword' = TRUE
            /\ passwordError' = ""
            /\ pwInflight' = Issue(pwInflight,
                   [op |-> "changePassword",
                     a |-> passwordData.currentPassword,
                     b |-> passwordData.newPassword])
    /\ UNCHANGED <<passwordData, passwordSuccess>>
    /\ OnSettingsPage /\ UNCHANGED <<route, otpVars>>

FieldsAfterFailure_Kept(d) == d

\* the fields after a rejected call
FieldsAfterFailure(d) == EmptyPasswordData

ChangeFailureText_NoTransportText(e) ==
    OrElse(e.response, "Failed to update password")

ChangeFailureText(e) ==
    OrElse(e.response, OrElse(e.message, "Failed to update password"))

ChangePasswordResolves ==
    \E k \in DOMAIN pwInflight :
        /\ pwInflight' = Answered(pwInflight, k)
        /\ passwordSuccess' = UpdateSuccessText
        /\ passwordData' = EmptyPasswordData
        /\ isUpdatingPassword' = FALSE
        /\ UNCHANGED passwordError
        /\ OnSettingsPage /\ UNCHANGED <<route, otpVars>>

ChangePasswordRejectsWith(k, e) ==
        /\ pwInflight' = Answered(pwInflight, k)
        /\ passwordError' = ChangeFailureText(e)
        /\ passwordData' = FieldsAfterFailure(passwordData)
        /\ isUpdatingPassword' = FALSE
        /\ UNCHANGED passwordSuccess
        /\ OnSettingsPage /\ UNCHANGED <<route, otpVars>>

ChangePasswordRejects ==
    \E k \in DOMAIN pwInflight, e \in ChangeErrors :
        ChangePasswordRejectsWith(k, e)

(***************************************************************************)
(* Specification.                                                          *)
(***************************************************************************)
InitOtp ==
    /\ otp = ""
    /\ newPassword = ""
    /\ confirmPassword = ""
    /\ error = null
    /\ message = null
    /\ isSubmitting = FALSE
    /\ verificationToken = InitialVerificationToken
    /\ resetToken = IssuedToken(1)
    /\ mounted = TRUE
    /\ inst = 1
    /\ inflight = <<>>
    /\ timers = 0
    /\ staleTimers = 0
    /\ verifiedArg = null
    /\ verifyReturned = null
    /\ resetOk = 0
    /\ timerOnBack = 0
    /\ clickOnBack = 0

InitPw ==
    /\ passwordData = EmptyPasswordData
    /\ passwordError = ""
    /\ passwordSuccess = ""
    /\ isUpdatingPassword = FALSE
    /\ pwInflight = <<>>

Init == route \in Routes /\ InitOtp /\ InitPw

NextPw ==
    \/ handlePasswordChange
    \/ handlePasswordUpdate
    \/ ChangePasswordResolves
    \/ ChangePasswordRejects

NextOtp ==
    \/ SetOtp
    \/ SetNewPassword
    \/ SetConfirmPassword
    \/ HandleVerifyOTP
    \/ VerifyOTPResolves
    \/ VerifyOTPRejects
    \/ HandlePasswordReset
    \/ ResetPasswordResolves
    \/ ResetPasswordRejects
    \/ BackClick
    \/ TimerFires
    \/ StaleTimerFires
    \/ Mount

Next == NextOtp \/ NextPw

Spec == Init /\ [][Next]_vars

\* with the scheduling of timers: a timer that was started expires (nothing
\* cancels it); no such promise holds for the answer to an external call
SpecFair ==
    /\ Spec
    /\ WF_vars(TimerFires)
    /\ WF_vars(StaleTimerFires)


(***************************************************************************)
(* Properties.                                                             *)
(***************************************************************************)
LiveCalls == IF mounted THEN CallsOf(inst) ELSE {}

\* C1: in the reset flow a submit of the new-password form with
\* newPassword # confirmPassword issues no resetPassword call: it sets error
\* to 'Passwords do not match' and leaves the submitting flag, the stored
\* token and the entered fields as they were.
C1_MismatchIssuesNoCall ==
    [][(HandlePasswordReset /\ newPassword # confirmPassword) =>
           /\ inflight' = inflight
           /\ error' = "Passwords do not match"
           /\ UNCHANGED <<isSubmitting, verificationToken, otp, newPassword,
                          confirmPassword>>]_vars

C1_Witness ==
    /\ AwaitingNewPassword
    /\ newPassword # "" /\ confirmPassword # ""
    /\ newPassword # confirmPassword
    /\ error = "Passwords do not match"
    /\ inflight = <<>>
    /\ ~isSubmitting

\* C2: an instance of the reset controller has at most one external call
\* outstanding, and so has the change-password flow; while a call of the
\* instance on screen is outstanding its submit control is disabled, so no
\* submit event starts a second call.
C2_AtMostOneOutstanding ==
    /\ \A i \in Instances : Cardinality(CallsOf(i)) <= 1
    /\ Len(pwInflight) <= 1
    /\ LiveCalls # {} => SubmitDisabled /\ ~ENABLED HandleVerifyOTP
                                       /\ ~ENABLED HandlePasswordReset
    /\ pwInflight # <<>> => UpdateDisabled /\ ~ENABLED handlePasswordUpdate

C2_Witness ==
    /\ AwaitingOTP
    /\ otp # ""
    /\ \E k \in LiveCalls : inflight[k].op = "verifyOTP" /\ inflight[k].b = otp
    /\ isSubmitting

\* this step delivers the answer to a call of the given operation to the
\* instance on screen
LiveAnswer(opname) ==
    /\ mounted
    /\ \E k \in CallsOf(inst) :
           inflight[k].op = opname /\ inflight' = Answered(inflight, k)

\* this step issues an external call of the reset flow
CallIssued == Len(inflight') > Len(inflight)
IssuedCall == inflight'[Len(inflight')]

\* C3: when a verifyOTP call succeeds, the controller moves from AwaitingOTP
\* to AwaitingNewPassword, the stored VerificationToken is the token the
\* verification call returned, and the displayed error is cleared.
C3_StoresReturnedToken ==
    [][(LiveAnswer("verifyOTP") /\ VerifyOTPResolves) =>
           /\ AwaitingOTP
           /\ AwaitingNewPassword'
           /\ verificationToken' = verifyReturned'
           /\ error' = null]_vars

\* C4: within one instance verifyOTP is not called once a token is stored
\* (until a back action discards it), resetPassword is called only after a
\* verifyOTP call of that instance succeeded, and the token passed to
\* resetPassword is the resetToken that was verified.
C4_CallOrder ==
    [][CallIssued =>
           /\ mounted /\ IssuedCall.inst = inst
           /\ IssuedCall.op = "verifyOTP" =>
                  /\ ~Truthy(verificationToken)
                  /\ verifiedArg = null
                  /\ IssuedCall.a = resetToken
           /\ IssuedCall.op = "resetPassword" =>
                  /\ verifiedArg # null
                  /\ IssuedCall.a = verifiedArg
                  /\ IssuedCall.a = resetToken]_vars

C4_Witness ==
    /\ mounted
    /\ inst = 2
    /\ \E k \in CallsOf(inst) :
           /\ inflight[k].op = "resetPassword"
           /\ inflight[k].a = verifiedArg
           /\ inflight[k].a = resetToken

\* this step is a click on the Back button
BackTaken == clickOnBack' = clickOnBack + 1

\* C5: Back taken in AwaitingNewPassword discards the stored token, and the
\* controller is in AwaitingOTP when it is shown again; from then on a token
\* is stored only by the answer to a verifyOTP call of the instance on
\* screen, and resetPassword is issued only with a stored token: the answer
\* to a call that was outstanding when Back was taken stores nothing.
C5_BackDiscardsToken ==
    [][/\ (BackTaken /\ AwaitingNewPassword) =>
              ~Truthy(verificationToken') /\ ~AwaitingNewPassword'
       /\ (~mounted /\ mounted') => AwaitingOTP'
       /\ (~Truthy(verificationToken) /\ Truthy(verificationToken')) =>
              LiveAnswer("verifyOTP") /\ VerifyOTPResolves
       /\ (CallIssued /\ IssuedCall.op = "resetPassword") =>
              Truthy(verificationToken) /\ IssuedCall.inst = inst]_vars

C5_Witness ==
    /\ ~mounted
    /\ clickOnBack = 1
    /\ ~Truthy(verificationToken)
    /\ \E k \in CallsOf(inst) : inflight[k].op = "resetPassword"

PendingTimers == timers + staleTimers
\* this step is the expiry of a timer, which invokes onBack
TimerExpires == PendingTimers' < PendingTimers

\* C6: when a resetPassword call succeeds a timer for onBack is started and,
\* if the instance is on screen, the success message is set (Done); the
\* timers of an instance have invoked onBack only as often as its
\* resetPassword calls have succeeded; and a started timer does not stay
\* pending for ever: timers keep expiring, each invoking onBack, until none
\* is pending.
C6_SuccessSchedulesOnBack ==
    /\ [][resetOk' = resetOk + 1 =>
              /\ timers' = timers + 1
              /\ mounted => Done' /\ Truthy(message') /\ ~isSubmitting']_vars
    /\ [](timerOnBack + timers = resetOk)
    /\ []<><<TimerExpires>>_vars \/ <>[](PendingTimers = 0)

C6_Witness ==
    /\ resetOk = 1
    /\ timerOnBack = 1
    /\ timers = 0
    /\ clickOnBack = 0
    /\ ~mounted

\* C7: after a remote failure of verifyOTP the controller is still in
\* AwaitingOTP with no token stored, after a remote failure of resetPassword
\* it is still in AwaitingNewPassword with the token unchanged; in both
\* cases an error is displayed and the submit control is enabled again.
C7_FailureKeepsState ==
    [][/\ (LiveAnswer("verifyOTP") /\ VerifyOTPRejects) =>
              /\ AwaitingOTP'
              /\ ~Truthy(verificationToken')
              /\ Truthy(error')
              /\ ~isSubmitting' /\ ~SubmitDisabled'
       /\ (LiveAnswer("resetPassword") /\ ResetPasswordRejects) =>
              /\ AwaitingNewPassword'
              /\ verificationToken' = verificationToken
              /\ Truthy(error')
              /\ ~isSubmitting' /\ ~SubmitDisabled']_vars

C7_Witness ==
    /\ AwaitingNewPassword
    /\ error = "Password reset failed"
    /\ ~isSubmitting
    /\ verificationToken = verifiedArg
    /\ newPassword = confirmPassword /\ newPassword # ""
    /\ ENABLED HandlePasswordReset

\* the policy verdict on the new password of the form
NewPasswordValid(d) == validatePassword(d.newPassword).isValid

\* C8 as claimed: whenever currentPassword and newPassword are the same
\* string at submit time, no changePassword call is issued and the error is
\* the NoOpChange text, whatever confirmPassword and the policy verdict are.
C8_NoOpAlwaysReported ==
    [][(handlePasswordUpdate
            /\ passwordData.currentPassword = passwordData.newPassword) =>
           /\ pwInflight' = pwInflight
           /\ passwordError' =
                  "New password must be different from current password"]_vars

\* C8 as amended: whenever currentPassword and newPassword are the same
\* string at submit time, no changePassword call is issued and an error is
\* reported; it is the NoOpChange text exactly when the new password also
\* passes the policy and equals confirmPassword (otherwise the earlier check
\* that fails reports its own error).
C8_NoOpIssuesNoCall ==
    [][(handlePasswordUpdate
            /\ passwordData.currentPassword = passwordData.newPassword) =>
           /\ pwInflight' = pwInflight
           /\ passwordError' # ""
           /\ (passwordError' =
                   "New password must be different from current password")
              <=> /\ NewPasswordValid(passwordData)
                  /\ passwordData.newPassword = passwordData.confirmPassword]_vars

C8_Witness ==
    /\ passwordData.currentPassword = passwordData.newPassword
    /\ passwordData.newPassword = passwordData.confirmPassword
    /\ NewPasswordValid(passwordData)
    /\ passwordError = "New password must be different from current password"
    /\ pwInflight = <<>>
    /\ ~isUpdatingPassword

\* C9: when a changePassword call fails remotely, the three password fields
\* are empty, the error is set and the updating flag is false once the
\* handler has finished, whatever the user typed while the call was
\* outstanding.
C9_FailureClearsFields ==
    [][ChangePasswordRejects =>
           /\ passwordData'.currentPassword = <<>>
           /\ passwordData'.newPassword = <<>>
           /\ passwordData'.confirmPassword = <<>>
           /\ passwordError' # ""
           /\ ~isUpdatingPassword']_vars

C9_Witness ==
    /\ passwordData = EmptyPasswordData
    /\ passwordError = "Failed to update password"
    /\ passwordSuccess = ""
    /\ ~isUpdatingPassword
    /\ pwInflight = <<>>

\* one of the local checks of the change-password form fails
LocalCheckFails(d) ==
    \/ d.currentPassword = <<>>
    \/ ~NewPasswordValid(d)
    \/ d.newPassword # d.confirmPassword
    \/ d.currentPassword = d.newPassword

\* C10: a submit on which a local check fails (change-password: empty
\* current password, policy violation, mismatch, no-op change; reset:
\* mismatch) issues no external call and changes nothing but the error
\* message: the entered fields, the submitting flag and the stored token
\* stay as they were.
C10_LocalErrorsChangeOnlyTheError ==
    [][/\ (handlePasswordUpdate /\ LocalCheckFails(passwordData)) =>
              /\ passwordError' # ""
              /\ UNCHANGED <<passwordData, isUpdatingPassword, pwInflight,
                             passwordSuccess, otpVars>>
       /\ (HandlePasswordReset /\ newPassword # confirmPassword) =>
              /\ Truthy(error')
              /\ UNCHANGED <<otp, newPassword, confirmPassword, isSubmitting,
                             verificationToken, inflight, message,
                             pwVars>>]_vars

C10_Witness ==
    /\ passwordData.currentPassword # <<>>
    /\ passwordData.currentPassword # passwordData.newPassword
    /\ NewPasswordValid(passwordData)
    /\ passwordData.confirmPassword # <<>>
    /\ passwordData.newPassword # passwordData.confirmPassword
    /\ passwordError = "New passwords do not match"
    /\ pwInflight = <<>>
    /\ ~isUpdatingPassword

\* the five indicators of the checklist, all lit
AllRequirements(p) ==
    /\ RequirementLength(p)
    /\ RequirementLower(p)
    /\ RequirementUpper(p)
    /\ RequirementDigit(p)
    /\ RequirementSpecial(p)

\* C11: the policy verdict on the new password is valid iff the five rules
\* of the checklist (length >= 8, lowercase, uppercase, digit, special
\* character), each evaluated on its own, all hold; and changePassword is
\* only ever called with a new password for which the five indicators are
\* all true.
C11_PolicyIsTheChecklist ==
    /\ NewPasswordValid(passwordData)
           <=> AllRequirements(passwordData.newPassword)
    /\ \A k \in DOMAIN pwInflight : AllRequirements(pwInflight[k].b)

C11_Witness ==
    /\ isUpdatingPassword
    /\ Len(pwInflight) = 1
    /\ AllRequirements(pwInflight[1].b)
    /\ NewPasswordValid(passwordData)
    /\ pwInflight[1].b = passwordData.newPassword

\* C12: after a verifyOTP call succeeds the stored otp is the empty string,
\* and after a resetPassword call succeeds the stored newPassword and
\* confirmPassword are both the empty string.
C12_SuccessClearsSecrets ==
    [][/\ (LiveAnswer("verifyOTP") /\ VerifyOTPResolves) => otp' = ""
       /\ (LiveAnswer("resetPassword") /\ ResetPasswordResolves) =>
              (newPassword' = "" /\ confirmPassword' = "")]_vars

\* the text a failure shows when the service sent none
GenericFailureText(opname) ==
    CASE opname = "verifyOTP" -> "OTP verification failed"
      [] opname = "resetPassword" -> "Password reset failed"
      [] opname = "changePassword" -> "Failed to update password"

\* the reset flow's half of C13: the service's message if present, else the
\* one generic string of the operation
ResetFlowFailureShown ==
    \A k \in LiveCalls, msg \in ServerMessages :
        /\ VerifyOTPRejectsWith(k, msg) =>
               error' = IF Truthy(msg) THEN msg
                        ELSE GenericFailureText("verifyOTP")
        /\ ResetPasswordRejectsWith(k, msg) =>
               error' = IF Truthy(msg) THEN msg
                        ELSE GenericFailureText("resetPassword")

\* C13 as stated: when verifyOTP, resetPassword or changePassword fails, the
\* displayed error is the server-provided message if there is one and
\* otherwise exactly the one fixed generic string of the operation; no other
\* text is displayed for a remote failure.
C13_ServerTextOrGeneric ==
    [][/\ ResetFlowFailureShown
       /\ \A k \in DOMAIN pwInflight, e \in ChangeErrors :
              ChangePasswordRejectsWith(k, e) =>
                  passwordError' = IF Truthy(e.response) THEN e.response
                                   ELSE GenericFailureText("changePassword")]_vars

\* C13, amended: verifyOTP and resetPassword failures show the server's
\* message if present and else their generic string; a changePassword
\* failure shows the server's message if present, else the error object's
\* own message if present, else the generic string.
C13_ServerTextOrErrorTextOrGeneric ==
    [][/\ ResetFlowFailureShown
       /\ \A k \in DOMAIN pwInflight, e \in ChangeErrors :
              ChangePasswordRejectsWith(k, e) =>
                  passwordError' =
                      IF Truthy(e.response) THEN e.response
                      ELSE IF Truthy(e.message) THEN e.message
                      ELSE GenericFailureText("changePassword")]_vars

C13_Witness ==
    /\ OnSettingsPage
    /\ passwordError = "Network Error"
    /\ ~isUpdatingPassword
    /\ pwInflight = <<>>

\* C14: Done is terminal: once a resetPassword call of a controller instance
\* has succeeded, that instance issues no further resetPassword or verifyOTP
\* call, the three seconds before the return to the prior screen included.
C14_DoneIsTerminal ==
    [][resetOk > 0 => ~CallIssued]_vars

\* C15: onBack is invoked at most once per controller instance, whatever the
\* interleaving of a Back click, repeated successful submissions and the
\* uncancelled three-second timers.
C15_OnBackAtMostOnce ==
    clickOnBack + timerOnBack <= 1

\* C16: an error and a success message are never displayed together: the
\* reset controller has no state with error and message both non-null, and
\* the change-password flow has no state with passwordError and
\* passwordSuccess both non-empty.
C16_NeverErrorAndSuccess ==
    /\ ~(error # null /\ message # null)
    /\ ~(passwordError # "" /\ passwordSuccess # "")

====
